---- MODULE Spec2Model ----
(***************************************************************************)
(* Model of SetupService (src/services/setup.js): the three static         *)
(* operations isAvailable, validate and setup, run by several callers      *)
(* (attempts) against one shared settings store, migration store and       *)
(* account store.  Every await of setup is a scheduling point; the two     *)
(* Promise.all fan-outs settle their members in any order.                 *)
(***************************************************************************)
EXTENDS Integers, Sequences, FiniteSets, TLC

\* ------------------------------------------------------------------ bounds
NumAttempts == 2
NumMigrations == 2

Attempts == 1..NumAttempts
AllMigrations == [i \in 1..NumMigrations |-> i]

\* ------------------------------------------------------------ input values
Emails == {"undefined", "", "a@b.com"}
Usernames == {"admin", "bad name"}
Passwords == {"Str0ngPW!", "123"}
SettingsPayloads == {"S", "T", "S_invalid"}

SetupInput == [email : Emails, username : Usernames,
               password : Passwords, settings : SettingsPayloads]
NoInput == [email |-> "-", username |-> "-", password |-> "-", settings |-> "-"]

NoConfig == "NoConfig"
NoError == "none"
NoUser == [exists |-> FALSE, role |-> "-", confirmed |-> FALSE]
Checks == {"isValidUsername", "isValidPassword", "settingsValidate"}
FinalOps == {"setRole", "confirmEmail"}
Ops == {"select", "listPending", "run", "update", "createLocalUser"}
         \cup Checks \cup FinalOps
SideEffectOps == Ops \ ({"select"} \cup Checks)
Terminal == {"Complete", "Aborted"}
NotCalled == [n |-> 0, st |-> "none"]

VARIABLES
  INSTALL_LOCK,  \* the process-wide lock flag, fixed at process start
  config,        \* the Configuration singleton of the settings store
  applied,       \* the set of migrations applied so far
  accounts,      \* the account store: the account created by each attempt
  pc,            \* each attempt's position in isAvailable / setup
  input,         \* the argument of each attempt's setup call
  avail,         \* what each attempt's isAvailable read and returned
  atCall,        \* the store as it was when each attempt called setup
  joinErr,       \* the rejection of the Promise.all being awaited
  migrations,    \* setup's local `migrations`
  settings,      \* setup's local `settings` after SettingsService.update
  user,          \* setup's local `user`
  err,           \* the error the attempt's promise was rejected with
  result,        \* the value the attempt's setup promise resolved with
  calls          \* per attempt and collaborator operation: how often it was
                 \* invoked (n) and how the invocation stands (st)

vars == <<INSTALL_LOCK, config, applied, accounts, pc, input, avail, atCall,
          joinErr, migrations, settings, user, err, result, calls>>

store == <<INSTALL_LOCK, config, applied, accounts>>
locals == <<migrations, settings, user, result>>

\* ------------------------------------------------------------ collaborators
\* UsersService.isValidUsername / isValidPassword, SettingsModel.validate
CheckPasses(k, in) ==
  CASE k = "isValidUsername" -> in.username = "admin"
    [] k = "isValidPassword" -> in.password = "Str0ngPW!"
    [] k = "settingsValidate" -> in.settings \in {"S", "T"}

CheckError(k) ==
  CASE k = "isValidUsername" -> "ErrInvalidUsername"
    [] k = "isValidPassword" -> "ErrInvalidPassword"
    [] k = "settingsValidate" -> "ErrInvalidSettings"

\* SettingsService.select('id'): the record, the "no such record" signal, or
\* some other failure of the store
Select(cfg) ==
  (IF cfg = NoConfig THEN {"ErrSettingsNotInit"} ELSE {"record"})
    \cup {"ErrSelect"}

\* MigrationService.listPending: the migrations not yet applied, in order
RECURSIVE PendingFrom(_)
PendingFrom(i) ==
  IF i > NumMigrations THEN <<>>
  ELSE IF AllMigrations[i] \in applied THEN PendingFrom(i + 1)
       ELSE <<AllMigrations[i]>> \o PendingFrom(i + 1)

ListPendingResult == PendingFrom(1)

\* the first k entries of a migration list, as a set
Prefix(list, k) == {list[i] : i \in 1..k}

\* UsersService.createLocalUser: a fresh account, ordinary role, unconfirmed
NewLocalUser == [exists |-> TRUE, role |-> "COMMENTER", confirmed |-> FALSE]

\* UsersService.setRole / confirmEmail: update the stored account by id
ApplyFinalOp(op, acc) ==
  IF op = "setRole" THEN [acc EXCEPT !.role = "ADMIN"]
  ELSE [acc EXCEPT !.confirmed = TRUE]

FinalOpError(op) == IF op = "setRole" THEN "ErrSetRole" ELSE "ErrConfirmEmail"

\* ------------------------------------------------------------------ helpers
\* the attempt p invokes the operations of S, which are left in state st
Invoke(p, S, st) ==
  [calls EXCEPT ![p] =
     [op \in Ops |-> IF op \in S THEN [n |-> @[op].n + 1, st |-> st] ELSE @[op]]]

Settle(p, op, st) == [calls EXCEPT ![p][op].st = st]

\* Promise.all over the operations of S: fulfilled when every member is
AllFulfilled(p, S) == \A k \in S : calls[p][k].st = "ok"

\* ------------------------------------------------------------------ Init
Init ==
  /\ INSTALL_LOCK \in BOOLEAN
  /\ config = NoConfig
  /\ applied = {}
  /\ accounts = [p \in Attempts |-> NoUser]
  /\ pc = [p \in Attempts |-> "start"]
  /\ input = [p \in Attempts |-> NoInput]
  /\ avail = [p \in Attempts |-> [read |-> "unread", res |-> "uncalled"]]
  /\ atCall = [p \in Attempts |-> [called |-> FALSE, cfg |-> FALSE, sequel |-> FALSE]]
  /\ joinErr = [p \in Attempts |-> NoError]
  /\ migrations = [p \in Attempts |-> <<>>]
  /\ settings = [p \in Attempts |-> "-"]
  /\ user = [p \in Attempts |-> NoUser]
  /\ err = [p \in Attempts |-> NoError]
  /\ result = [p \in Attempts |-> [settings |-> "-", user |-> NoUser]]
  /\ calls = [p \in Attempts |-> [op \in Ops |-> NotCalled]]

\* ------------------------------------------------------------ isAvailable
\* isAvailable with a catch that lets every error of the try block through
IsAvailableResult_CatchAll(lock, read) ==
  IF lock THEN "ErrInstallLock" ELSE "ok"

\* the outcome of isAvailable, given the lock and what the read produced
IsAvailableResult(lock, read) ==
  IF lock THEN "ErrInstallLock"
  ELSE IF read = "record" THEN "ErrSettingsInit"
  ELSE IF read = "ErrSettingsNotInit" THEN "ok"
  ELSE read

\* isAvailable as a lock acquisition: it succeeds for one attempt at a time
IsAvailable_Exclusive(p) ==
  /\ pc[p] = "start"
  /\ \E r \in (IF INSTALL_LOCK THEN {"unread"} ELSE Select(config)) :
       /\ avail' = [avail EXCEPT ![p] =
                      [read |-> r, res |-> IsAvailableResult(INSTALL_LOCK, r)]]
       /\ calls' = IF r = "unread" THEN calls
                   ELSE Invoke(p, {"select"}, IF r = "record" THEN "ok" ELSE "fail")
       /\ IF IsAvailableResult(INSTALL_LOCK, r) = "ok"
          THEN /\ \A q \in Attempts \ {p} : avail[q].res # "ok"
               /\ pc' = [pc EXCEPT ![p] = "checked"]
               /\ err' = err
          ELSE /\ pc' = [pc EXCEPT ![p] = "rejected"]
               /\ err' = [err EXCEPT ![p] = IsAvailableResult(INSTALL_LOCK, r)]
  /\ UNCHANGED <<store, locals, input, atCall, joinErr>>

IsAvailable(p) ==
  /\ pc[p] = "start"
  /\ \E r \in (IF INSTALL_LOCK THEN {"unread"} ELSE Select(config)) :
       /\ avail' = [avail EXCEPT ![p] =
                      [read |-> r, res |-> IsAvailableResult(INSTALL_LOCK, r)]]
       /\ calls' = IF r = "unread" THEN calls
                   ELSE Invoke(p, {"select"}, IF r = "record" THEN "ok" ELSE "fail")
       /\ IF IsAvailableResult(INSTALL_LOCK, r) = "ok"
          THEN pc' = [pc EXCEPT ![p] = "checked"] /\ err' = err
          ELSE /\ pc' = [pc EXCEPT ![p] = "rejected"]
               /\ err' = [err EXCEPT ![p] = IsAvailableResult(INSTALL_LOCK, r)]
  /\ UNCHANGED <<store, locals, input, atCall, joinErr>>

\* ------------------------------------------------------------ validate
\* the email test as `email === undefined`
MissingEmail_UndefinedOnly(email) == email = "undefined"

\* `!email`
MissingEmail(email) == email \in {"undefined", ""}

\* validate(in) is entered by the attempt p, which then stands at `waiting`:
\* it throws on a missing email (the attempt ends at `thrown`) and otherwise
\* starts the three checks and returns their Promise.all
Validate(p, in, waiting, thrown) ==
  /\ input' = [input EXCEPT ![p] = in]
  /\ IF MissingEmail(in.email)
     THEN /\ pc' = [pc EXCEPT ![p] = thrown]
          /\ err' = [err EXCEPT ![p] = "ErrMissingEmail"]
          /\ UNCHANGED calls
     ELSE /\ pc' = [pc EXCEPT ![p] = waiting]
          /\ calls' = Invoke(p, Checks, "pending")
          /\ err' = err

\* a caller calls validate on its own
ValidateCall(p, in) ==
  /\ pc[p] = "start"
  /\ Validate(p, in, "validating", "Invalid")
  /\ UNCHANGED <<store, locals, avail, atCall, joinErr>>

\* one of the three checks settles; the first rejection rejects the Promise.all
CheckSettle(p, k) ==
  /\ calls[p][k].st = "pending"
  /\ IF CheckPasses(k, input[p])
     THEN calls' = Settle(p, k, "ok") /\ joinErr' = joinErr
     ELSE /\ calls' = Settle(p, k, "fail")
          /\ joinErr' = IF pc[p] \in {"validate", "validating"} /\ joinErr[p] = NoError
                        THEN [joinErr EXCEPT ![p] = CheckError(k)]
                        ELSE joinErr
  /\ UNCHANGED <<store, locals, pc, input, avail, atCall, err>>

\* the promise returned by a validate call of its own settles
ValidateReturn(p) ==
  /\ pc[p] = "validating"
  /\ \/ /\ joinErr[p] # NoError
        /\ pc' = [pc EXCEPT ![p] = "Invalid"]
        /\ err' = [err EXCEPT ![p] = joinErr[p]]
        /\ joinErr' = [joinErr EXCEPT ![p] = NoError]
     \/ /\ joinErr[p] = NoError
        /\ AllFulfilled(p, Checks)
        /\ pc' = [pc EXCEPT ![p] = "Valid"]
        /\ UNCHANGED <<err, joinErr>>
  /\ UNCHANGED <<store, locals, input, avail, atCall, calls>>

\* ------------------------------------------------------------ setup
\* setup is entered, straight away or after isAvailable resolved, and calls
\* validate
SetupCall(p, in) ==
  /\ pc[p] \in {"start", "checked"}
  /\ atCall' = [atCall EXCEPT ![p] =
                  [called |-> TRUE, cfg |-> config # NoConfig,
                   sequel |-> \E q \in Attempts : pc[q] = "Complete"]]
  /\ Validate(p, in, "validate", "Aborted")
  /\ UNCHANGED <<store, locals, avail, joinErr>>

\* setup catching the rejection of validate and going on to the migrations
ValidateJoin_CatchAndContinue(p) ==
  /\ pc[p] = "validate"
  /\ \/ /\ joinErr[p] # NoError
        /\ err' = [err EXCEPT ![p] = joinErr[p]]
        /\ joinErr' = [joinErr EXCEPT ![p] = NoError]
     \/ /\ joinErr[p] = NoError
        /\ AllFulfilled(p, Checks)
        /\ UNCHANGED <<err, joinErr>>
  /\ pc' = [pc EXCEPT ![p] = "listPending"]
  /\ UNCHANGED <<store, locals, input, avail, atCall, calls>>

\* setup awaiting Promise.race of the three checks instead of Promise.all
ValidateJoin_Race(p) ==
  /\ pc[p] = "validate"
  /\ \/ /\ joinErr[p] # NoError
        /\ pc' = [pc EXCEPT ![p] = "Aborted"]
        /\ err' = [err EXCEPT ![p] = joinErr[p]]
        /\ joinErr' = [joinErr EXCEPT ![p] = NoError]
     \/ /\ joinErr[p] = NoError
        /\ \E k \in Checks : calls[p][k].st = "ok"
        /\ pc' = [pc EXCEPT ![p] = "listPending"]
        /\ UNCHANGED <<err, joinErr>>
  /\ UNCHANGED <<store, locals, input, avail, atCall, calls>>

\* `await SetupService.validate(...)` resumes
ValidateJoin(p) ==
  /\ pc[p] = "validate"
  /\ \/ /\ joinErr[p] # NoError
        /\ pc' = [pc EXCEPT ![p] = "Aborted"]
        /\ err' = [err EXCEPT ![p] = joinErr[p]]
        /\ joinErr' = [joinErr EXCEPT ![p] = NoError]
     \/ /\ joinErr[p] = NoError
        /\ AllFulfilled(p, Checks)
        /\ pc' = [pc EXCEPT ![p] = "listPending"]
        /\ UNCHANGED <<err, joinErr>>
  /\ UNCHANGED <<store, locals, input, avail, atCall, calls>>

\* setup calling listPending a second time when the first call rejects
ListPending_Retry(p) ==
  /\ pc[p] = "listPending"
  /\ \/ /\ calls' = Invoke(p, {"listPending"}, "ok")
        /\ migrations' = [migrations EXCEPT ![p] = ListPendingResult]
        /\ pc' = [pc EXCEPT ![p] = "run"]
        /\ err' = err
     \/ /\ calls' = [calls EXCEPT ![p]["listPending"] = [n |-> @.n + 2, st |-> "fail"]]
        /\ pc' = [pc EXCEPT ![p] = "Aborted"]
        /\ err' = [err EXCEPT ![p] = "ErrListPending"]
        /\ UNCHANGED migrations
  /\ UNCHANGED <<store, settings, user, result, input, avail, atCall, joinErr>>

\* setup going from listPending straight to the update, without the run
ListPending_SkipRun(p) ==
  /\ pc[p] = "listPending"
  /\ \/ /\ calls' = Invoke(p, {"listPending"}, "ok")
        /\ migrations' = [migrations EXCEPT ![p] = ListPendingResult]
        /\ pc' = [pc EXCEPT ![p] = "update"]
        /\ err' = err
     \/ /\ calls' = Invoke(p, {"listPending"}, "fail")
        /\ pc' = [pc EXCEPT ![p] = "Aborted"]
        /\ err' = [err EXCEPT ![p] = "ErrListPending"]
        /\ UNCHANGED migrations
  /\ UNCHANGED <<store, settings, user, result, input, avail, atCall, joinErr>>

\* setup calling listPending without keeping what it resolved with
ListPending_Discarded(p) ==
  /\ pc[p] = "listPending"
  /\ \/ /\ calls' = Invoke(p, {"listPending"}, "ok")
        /\ pc' = [pc EXCEPT ![p] = "run"]
        /\ err' = err
     \/ /\ calls' = Invoke(p, {"listPending"}, "fail")
        /\ pc' = [pc EXCEPT ![p] = "Aborted"]
        /\ err' = [err EXCEPT ![p] = "ErrListPending"]
  /\ UNCHANGED <<store, migrations, settings, user, result, input, avail, atCall,
                 joinErr>>

\* `await MigrationService.listPending()`
ListPending(p) ==
  /\ pc[p] = "listPending"
  /\ \/ /\ calls' = Invoke(p, {"listPending"}, "ok")
        /\ migrations' = [migrations EXCEPT ![p] = ListPendingResult]
        /\ pc' = [pc EXCEPT ![p] = "run"]
        /\ err' = err
     \/ /\ calls' = Invoke(p, {"listPending"}, "fail")
        /\ pc' = [pc EXCEPT ![p] = "Aborted"]
        /\ err' = [err EXCEPT ![p] = "ErrListPending"]
        /\ UNCHANGED migrations
  /\ UNCHANGED <<store, settings, user, result, input, avail, atCall, joinErr>>

\* setup calling MigrationService.run without awaiting it
Run_NotAwaited(p) ==
  /\ pc[p] = "run"
  /\ \E k \in 0..Len(migrations[p]), ok \in BOOLEAN :
       /\ ok => k = Len(migrations[p])
       /\ applied' = applied \cup Prefix(migrations[p], k)
       /\ calls' = Invoke(p, {"run"}, IF ok THEN "ok" ELSE "fail")
       /\ pc' = [pc EXCEPT ![p] = "update"]
       /\ err' = err
  /\ UNCHANGED <<INSTALL_LOCK, config, accounts, locals, input, avail, atCall,
                 joinErr>>

\* `await MigrationService.run(migrations)`: the run applies the list in order
\* and may fail after any number of them
Run(p) ==
  /\ pc[p] = "run"
  /\ \E k \in 0..Len(migrations[p]), ok \in BOOLEAN :
       /\ ok => k = Len(migrations[p])
       /\ applied' = applied \cup Prefix(migrations[p], k)
       /\ IF ok
          THEN /\ calls' = Invoke(p, {"run"}, "ok")
               /\ pc' = [pc EXCEPT ![p] = "update"]
               /\ err' = err
          ELSE /\ calls' = Invoke(p, {"run"}, "fail")
               /\ pc' = [pc EXCEPT ![p] = "Aborted"]
               /\ err' = [err EXCEPT ![p] = "ErrRun"]
  /\ UNCHANGED <<INSTALL_LOCK, config, accounts, locals, input, avail, atCall,
                 joinErr>>

\* setup going on to create the account whether or not the update succeeded
Update_FailureIgnored(p) ==
  /\ pc[p] = "update"
  /\ \/ /\ calls' = Invoke(p, {"update"}, "ok")
        /\ config' = input[p].settings
        /\ settings' = [settings EXCEPT ![p] = input[p].settings]
     \/ /\ calls' = Invoke(p, {"update"}, "fail")
        /\ UNCHANGED <<config, settings>>
  /\ pc' = [pc EXCEPT ![p] = "createLocalUser"]
  /\ err' = err
  /\ UNCHANGED <<INSTALL_LOCK, applied, accounts, migrations, user, result,
                 input, avail, atCall, joinErr>>

\* `settings = await SettingsService.update(settings)`
Update(p) ==
  /\ pc[p] = "update"
  /\ \/ /\ calls' = Invoke(p, {"update"}, "ok")
        /\ config' = input[p].settings
        /\ settings' = [settings EXCEPT ![p] = input[p].settings]
        /\ pc' = [pc EXCEPT ![p] = "createLocalUser"]
        /\ err' = err
     \/ /\ calls' = Invoke(p, {"update"}, "fail")
        /\ pc' = [pc EXCEPT ![p] = "Aborted"]
        /\ err' = [err EXCEPT ![p] = "ErrUpdate"]
        /\ UNCHANGED <<config, settings>>
  /\ UNCHANGED <<INSTALL_LOCK, applied, accounts, migrations, user, result,
                 input, avail, atCall, joinErr>>

\* createLocalUser resolves: `user` is bound and both finalisation calls are
\* issued before setup suspends again
CreateLocalUserOk(p) ==
  /\ pc[p] = "createLocalUser"
  /\ accounts' = [accounts EXCEPT ![p] = NewLocalUser]
  /\ user' = [user EXCEPT ![p] = NewLocalUser]
  /\ calls' = [calls EXCEPT ![p] =
                 [op \in Ops |->
                    IF op = "createLocalUser" THEN [n |-> @[op].n + 1, st |-> "ok"]
                    ELSE IF op \in FinalOps THEN [n |-> @[op].n + 1, st |-> "pending"]
                    ELSE @[op]]]
  /\ pc' = [pc EXCEPT ![p] = "finalize"]
  /\ UNCHANGED <<INSTALL_LOCK, config, applied, migrations, settings, result,
                 input, avail, atCall, joinErr, err>>

\* setup removing the Configuration again when createLocalUser rejects
CreateLocalUserFail_Compensate(p) ==
  /\ pc[p] = "createLocalUser"
  /\ calls' = Invoke(p, {"createLocalUser"}, "fail")
  /\ pc' = [pc EXCEPT ![p] = "Aborted"]
  /\ err' = [err EXCEPT ![p] = "ErrCreateUser"]
  /\ config' = NoConfig
  /\ UNCHANGED <<INSTALL_LOCK, applied, accounts, locals, input, avail, atCall,
                 joinErr>>

\* createLocalUser rejects
CreateLocalUserFail(p) ==
  /\ pc[p] = "createLocalUser"
  /\ calls' = Invoke(p, {"createLocalUser"}, "fail")
  /\ pc' = [pc EXCEPT ![p] = "Aborted"]
  /\ err' = [err EXCEPT ![p] = "ErrCreateUser"]
  /\ UNCHANGED <<store, locals, input, avail, atCall, joinErr>>

\* a failing setRole or confirmEmail removing the account that was created
FinalSettle_Compensate(p, op) ==
  /\ calls[p][op].st = "pending"
  /\ \/ /\ accounts' = [accounts EXCEPT ![p] = ApplyFinalOp(op, @)]
        /\ calls' = Settle(p, op, "ok")
        /\ joinErr' = joinErr
     \/ /\ calls' = Settle(p, op, "fail")
        /\ joinErr' = IF pc[p] = "finalize" /\ joinErr[p] = NoError
                      THEN [joinErr EXCEPT ![p] = FinalOpError(op)]
                      ELSE joinErr
        /\ accounts' = [accounts EXCEPT ![p] = NoUser]
  /\ UNCHANGED <<INSTALL_LOCK, config, applied, locals, pc, input, avail,
                 atCall, err>>

\* setRole or confirmEmail settles; the first rejection rejects the Promise.all
FinalSettle(p, op) ==
  /\ calls[p][op].st = "pending"
  /\ \/ /\ accounts' = [accounts EXCEPT ![p] = ApplyFinalOp(op, @)]
        /\ calls' = Settle(p, op, "ok")
        /\ joinErr' = joinErr
     \/ /\ calls' = Settle(p, op, "fail")
        /\ joinErr' = IF pc[p] = "finalize" /\ joinErr[p] = NoError
                      THEN [joinErr EXCEPT ![p] = FinalOpError(op)]
                      ELSE joinErr
        /\ UNCHANGED accounts
  /\ UNCHANGED <<INSTALL_LOCK, config, applied, locals, pc, input, avail,
                 atCall, err>>

\* the value setup resolves with: the locals `settings` and `user`
SetupResult(p) == [settings |-> settings[p], user |-> user[p]]

\* setup's await of the finalisation never resuming on a rejection
FinalizeJoin_NeverRejects(p) ==
  /\ pc[p] = "finalize"
  /\ joinErr[p] = NoError
  /\ AllFulfilled(p, FinalOps)
  /\ pc' = [pc EXCEPT ![p] = "Complete"]
  /\ result' = [result EXCEPT ![p] = SetupResult(p)]
  /\ UNCHANGED <<store, migrations, settings, user, input, avail, atCall, calls,
                 err, joinErr>>

\* setup awaiting Promise.allSettled: it returns once both calls have settled
FinalizeJoin_AllSettled(p) ==
  /\ pc[p] = "finalize"
  /\ \A op \in FinalOps : calls[p][op].st \in {"ok", "fail"}
  /\ pc' = [pc EXCEPT ![p] = "Complete"]
  /\ result' = [result EXCEPT ![p] = SetupResult(p)]
  /\ joinErr' = [joinErr EXCEPT ![p] = NoError]
  /\ UNCHANGED <<store, migrations, settings, user, input, avail, atCall, calls, err>>

\* `await Promise.all([setRole, confirmEmail])` resumes, then `return`
FinalizeJoin(p) ==
  /\ pc[p] = "finalize"
  /\ \/ /\ joinErr[p] # NoError
        /\ pc' = [pc EXCEPT ![p] = "Aborted"]
        /\ err' = [err EXCEPT ![p] = joinErr[p]]
        /\ joinErr' = [joinErr EXCEPT ![p] = NoError]
        /\ UNCHANGED result
     \/ /\ joinErr[p] = NoError
        /\ AllFulfilled(p, FinalOps)
        /\ pc' = [pc EXCEPT ![p] = "Complete"]
        /\ result' = [result EXCEPT ![p] = SetupResult(p)]
        /\ UNCHANGED <<err, joinErr>>
  /\ UNCHANGED <<store, migrations, settings, user, input, avail, atCall, calls>>

Next ==
  \E p \in Attempts :
    \/ IsAvailable(p)
    \/ \E in \in SetupInput : ValidateCall(p, in)
    \/ \E k \in Checks : CheckSettle(p, k)
    \/ ValidateReturn(p)
    \/ \E in \in SetupInput : SetupCall(p, in)
    \/ ValidateJoin(p)
    \/ ListPending(p)
    \/ Run(p)
    \/ Update(p)
    \/ CreateLocalUserOk(p)
    \/ CreateLocalUserFail(p)
    \/ \E op \in FinalOps : FinalSettle(p, op)
    \/ FinalizeJoin(p)

Spec == Init /\ [][Next]_vars

\* what the event loop runs for an attempt once its call is made: a pending
\* collaborator call settles, or an await of setup or validate resumes
Resume(p) ==
  \/ \E k \in Checks : CheckSettle(p, k)
  \/ ValidateReturn(p)
  \/ ValidateJoin(p)
  \/ ListPending(p)
  \/ Run(p)
  \/ Update(p)
  \/ CreateLocalUserOk(p)
  \/ CreateLocalUserFail(p)
  \/ \E op \in FinalOps : FinalSettle(p, op)
  \/ FinalizeJoin(p)

\* the inputs that pass the three checks of validate
PassingInput ==
  {in \in SetupInput : ~MissingEmail(in.email)
                         /\ \A k \in Checks : CheckPasses(k, in)}

\* the calls made in the fair specification: the first attempt makes any call
\* with any input; the attempts running beside it call setup with an input
\* that passes validate, which is the only way an attempt reaches the store
FairCall(p) ==
  \/ p = 1 /\ IsAvailable(p)
  \/ p = 1 /\ \E in \in SetupInput : ValidateCall(p, in)
  \/ \E in \in (IF p = 1 THEN SetupInput ELSE PassingInput) : SetupCall(p, in)

FairNext == \E p \in Attempts : FairCall(p) \/ Resume(p)

\* every collaborator call eventually returns or fails, and a settled await
\* eventually resumes; nothing obliges a caller to call
FairSpec ==
  Init /\ [][FairNext]_vars /\ \A p \in Attempts : WF_vars(Resume(p))

\* ================================================================== claims

\* C1: a call to setup ends in success only if isAvailable would have
\* succeeded when setup was called (lock unset, no Configuration record) and
\* validate succeeds on the same input.
C1_SuccessOnlyIfAvailableAndValid ==
  \A p \in Attempts :
    pc[p] = "Complete" =>
      /\ ~INSTALL_LOCK
      /\ ~atCall[p].cfg
      /\ input[p].email \notin {"undefined", ""}
      /\ \A k \in Checks : CheckPasses(k, input[p])

\* C2: with the lock unset, a setup call made after another setup call
\* completed and persisted the Configuration fails with AlreadyInitialized,
\* and invokes no migration, configuration or account operation.
C2_SecondSetupAlreadyInitialized ==
  \A p \in Attempts :
    (~INSTALL_LOCK /\ atCall[p].sequel) =>
      /\ pc[p] # "Complete"
      /\ pc[p] = "Aborted" => err[p] = "ErrSettingsInit"
      /\ \A op \in SideEffectOps : calls[p][op].n = 0

\* C3: with the installation lock set, a setup call invokes no validator and
\* no MigrationRunner, ConfigStore or AccountStore operation.
C3_LockedSetupInvokesNothing ==
  INSTALL_LOCK =>
    \A p \in Attempts :
      atCall[p].called => \A op \in Checks \cup SideEffectOps : calls[p][op].n = 0

\* C4: isAvailable's outcome is determined by the lock and the read: Locked
\* without a read when the lock is set; otherwise AlreadyInitialized for a
\* record, success for NotInitialized, and the read's own error for any
\* other read failure.
C4_IsAvailableOutcome ==
  \A p \in Attempts :
    avail[p].res # "uncalled" =>
      /\ INSTALL_LOCK =>
           /\ avail[p].res = "ErrInstallLock"
           /\ avail[p].read = "unread"
           /\ calls[p]["select"].n = 0
      /\ ~INSTALL_LOCK =>
           /\ calls[p]["select"].n = 1
           /\ avail[p].read = "record" => avail[p].res = "ErrSettingsInit"
           /\ avail[p].read = "ErrSettingsNotInit" => avail[p].res = "ok"
           /\ avail[p].read \notin {"record", "ErrSettingsNotInit"} =>
                avail[p].res = avail[p].read
      /\ avail[p].res = "ok" <=> pc[p] \notin {"start", "rejected"}
      /\ pc[p] = "rejected" => err[p] = avail[p].res

\* C4 witness: an isAvailable read the record that a completed setup had
\* persisted, and was rejected
C4_Witness ==
  \E p, q \in Attempts :
    /\ avail[p].read = "record" /\ pc[p] = "rejected"
    /\ pc[q] = "Complete"

\* C5: a setup or validate call without an email fails with MissingEmail; no
\* check is started and no migration, configuration or account operation
\* is invoked.
C5_MissingEmailFirst ==
  \A p \in Attempts :
    (input[p] # NoInput /\ input[p].email \in {"undefined", ""}) =>
      /\ pc[p] \in {"Aborted", "Invalid"}
      /\ err[p] = "ErrMissingEmail"
      /\ \A op \in Checks \cup SideEffectOps : calls[p][op] = NotCalled

\* C5 witness: a setup call with an empty email, and otherwise valid input,
\* has been rejected
C5_Witness ==
  \E p \in Attempts :
    /\ atCall[p].called
    /\ input[p].email = ""
    /\ \A k \in Checks : CheckPasses(k, input[p])
    /\ pc[p] = "Aborted"

\* C6: an attempt whose listPending or run failed is aborted and has invoked
\* neither ConfigStore.update nor createLocalUser.
C6_MigrationFailureStops ==
  \A p \in Attempts :
    (calls[p]["listPending"].st = "fail" \/ calls[p]["run"].st = "fail") =>
      /\ pc[p] = "Aborted"
      /\ err[p] \in {"ErrListPending", "ErrRun"}
      /\ calls[p]["update"].n = 0
      /\ calls[p]["createLocalUser"].n = 0
      /\ settings[p] = "-"
      /\ ~accounts[p].exists

\* C6 witness: a run failed after applying part of its list
C6_Witness ==
  \E p \in Attempts :
    /\ calls[p]["run"].st = "fail"
    /\ applied # {}
    /\ Cardinality(applied) < NumMigrations

\* C7: when createLocalUser fails, setup fails with that error, the
\* Configuration written by the attempt's update stays persisted, and neither
\* setRole nor confirmEmail is invoked.
C7_AccountFailureKeepsConfig ==
  \A p \in Attempts :
    calls[p]["createLocalUser"].st = "fail" =>
      /\ pc[p] = "Aborted"
      /\ err[p] = "ErrCreateUser"
      /\ calls[p]["update"].st = "ok"
      /\ config # NoConfig
      /\ \/ config = settings[p]
         \/ \E q \in Attempts \ {p} :
              calls[q]["update"].st = "ok" /\ config = settings[q]
      /\ \A op \in FinalOps : calls[p][op].n = 0
      /\ ~accounts[p].exists

\* C7 witness: an attempt was aborted by createLocalUser
C7_Witness ==
  \E p \in Attempts :
    /\ calls[p]["createLocalUser"].st = "fail"
    /\ pc[p] = "Aborted"
    /\ config # NoConfig

\* C8: the user a successful setup returns has the administrator role and a
\* confirmed email.
C8_ReturnedUserIsConfirmedAdmin ==
  \A p \in Attempts :
    pc[p] = "Complete" =>
      /\ result[p].user.role = "ADMIN"
      /\ result[p].user.confirmed

\* C9: validate succeeds only if all three checks succeed; once a check has
\* failed validate fails, with the error of the first check observed to fail.
C9_ValidateAllOrFirstError ==
  /\ [](\A p \in Attempts :
          /\ (pc[p] \in {"Valid", "listPending", "run", "update",
                         "createLocalUser", "finalize", "Complete"}
              \/ calls[p]["listPending"].n > 0)
               => \A k \in Checks :
                    CheckPasses(k, input[p]) /\ calls[p][k].st = "ok"
          /\ (\E k \in Checks : calls[p][k].st = "fail")
               => \E k \in Checks :
                    /\ calls[p][k].st = "fail"
                    /\ ~CheckPasses(k, input[p])
                    /\ \/ pc[p] \in {"validate", "validating"}
                            /\ joinErr[p] = CheckError(k)
                       \/ pc[p] \in {"Aborted", "Invalid"}
                            /\ err[p] = CheckError(k))
  /\ [][\A p \in Attempts :
          pc[p] \in {"validate", "validating"} =>
            /\ (joinErr[p] = NoError /\ joinErr'[p] # NoError)
                 => \E k \in Checks :
                      /\ \A j \in Checks : calls[p][j].st # "fail"
                      /\ calls'[p][k].st = "fail"
                      /\ joinErr'[p] = CheckError(k)
            /\ joinErr[p] # NoError
                 => \/ joinErr'[p] = joinErr[p] /\ pc'[p] = pc[p]
                    \/ pc'[p] \in {"Aborted", "Invalid"} /\ err'[p] = joinErr[p]]_vars

\* C9 witness: validate failed with the password error although the username
\* check failed as well, having settled later
C9_Witness ==
  \E p \in Attempts :
    /\ pc[p] = "Aborted"
    /\ err[p] = "ErrInvalidPassword"
    /\ calls[p]["isValidUsername"].st = "fail"
    /\ calls[p]["settingsValidate"].st = "ok"

\* C10: an attempt invokes createLocalUser only after its own
\* ConfigStore.update succeeded, so an account created by setup exists only
\* while a Configuration record is persisted.
C10_ConfigBeforeAccount ==
  \A p \in Attempts :
    /\ calls[p]["createLocalUser"].n > 0 =>
         calls[p]["update"].st = "ok" /\ config # NoConfig
    /\ accounts[p].exists => config # NoConfig /\ settings[p] # "-"

\* C10 witness: one attempt has created its account while another one, running
\* concurrently, has not yet persisted its Configuration
C10_Witness ==
  \E p, q \in Attempts :
    /\ accounts[p].exists
    /\ pc[q] = "update"

\* C11: no retries and no error rewriting: an attempt invokes each
\* collaborator operation at most once, at most one of the sequential steps
\* fails, and the error of an aborted setup is the error of a step that failed.
C11_NoRetryNoRewrite ==
  \A p \in Attempts :
    /\ \A op \in Ops : calls[p][op].n <= 1
    /\ Cardinality({op \in {"listPending", "run", "update", "createLocalUser"} :
                      calls[p][op].st = "fail"}) <= 1
    /\ pc[p] = "Aborted" =>
         \/ err[p] = "ErrMissingEmail" /\ input[p].email \in {"undefined", ""}
         \/ \E k \in Checks : calls[p][k].st = "fail" /\ err[p] = CheckError(k)
         \/ calls[p]["listPending"].st = "fail" /\ err[p] = "ErrListPending"
         \/ calls[p]["run"].st = "fail" /\ err[p] = "ErrRun"
         \/ calls[p]["update"].st = "fail" /\ err[p] = "ErrUpdate"
         \/ calls[p]["createLocalUser"].st = "fail" /\ err[p] = "ErrCreateUser"
         \/ \E op \in FinalOps :
              calls[p][op].st = "fail" /\ err[p] = FinalOpError(op)

\* C11 witness: an attempt was aborted by the error of SettingsService.update,
\* each step before it having been invoked once
C11_Witness ==
  \E p \in Attempts :
    /\ pc[p] = "Aborted"
    /\ err[p] = "ErrUpdate"
    /\ calls[p]["update"] = [n |-> 1, st |-> "fail"]
    /\ calls[p]["run"] = [n |-> 1, st |-> "ok"]
    /\ calls[p]["listPending"] = [n |-> 1, st |-> "ok"]

\* C12: the availability check establishes no mutual exclusion: as long as the
\* lock is unset and no Configuration is persisted, isAvailable can succeed
\* for an attempt whatever the other attempts have done, and an attempt that
\* has come to its ConfigStore.update can always issue it.
C12_NoMutualExclusion ==
  \A p \in Attempts :
    /\ (~INSTALL_LOCK /\ config = NoConfig /\ pc[p] = "start")
         => ENABLED (IsAvailable(p) /\ pc'[p] = "checked")
    /\ pc[p] = "update" => ENABLED Update(p)

\* C12 witness: the race: two attempts both passed isAvailable, both wrote the
\* Configuration and both created an administrator account
C12_Witness ==
  \E p, q \in Attempts :
    /\ p # q
    /\ avail[p].res = "ok" /\ avail[q].res = "ok"
    /\ calls[p]["update"].st = "ok" /\ calls[q]["update"].st = "ok"
    /\ accounts[p].role = "ADMIN" /\ accounts[q].role = "ADMIN"
    /\ pc[p] = "Complete" /\ pc[q] = "Complete"

\* C13: within one setup attempt the steps occur in the order validate,
\* listPending, run, update, createLocalUser, setRole and confirmEmail,
\* Complete: a step is invoked only after the step before it succeeded, no
\* step is invoked twice, and setup moves only from a step to the next one or
\* to Aborted.
C13_StrictStepOrder ==
  /\ [](\A p \in Attempts :
          /\ calls[p]["listPending"].n > 0
               => \A k \in Checks : calls[p][k].st = "ok"
          /\ calls[p]["run"].n > 0 => calls[p]["listPending"].st = "ok"
          /\ calls[p]["update"].n > 0 => calls[p]["run"].st = "ok"
          /\ calls[p]["createLocalUser"].n > 0 => calls[p]["update"].st = "ok"
          /\ \A op \in FinalOps :
               calls[p][op].n > 0 => calls[p]["createLocalUser"].st = "ok"
          /\ pc[p] = "Complete" => \A op \in FinalOps : calls[p][op].st = "ok"
          /\ \A op \in SideEffectOps : calls[p][op].n <= 1)
  /\ [][\A p \in Attempts :
          atCall[p].called /\ pc'[p] # pc[p] =>
            <<pc[p], pc'[p]>> \in
              {<<"validate", "listPending">>, <<"listPending", "run">>,
               <<"run", "update">>, <<"update", "createLocalUser">>,
               <<"createLocalUser", "finalize">>, <<"finalize", "Complete">>}
              \cup {<<s, "Aborted">> : s \in {"validate", "listPending", "run", "update",
                                              "createLocalUser", "finalize"}}]_vars

\* C13 witness: an attempt went through every step once and completed
C13_Witness ==
  \E p \in Attempts :
    /\ pc[p] = "Complete"
    /\ \A op \in SideEffectOps \cup Checks : calls[p][op] = [n |-> 1, st |-> "ok"]
    /\ applied # {}

\* C14: setup completes only after setRole and confirmEmail both succeeded
\* for the created account; once one of them has failed, setup is rejected
\* with the error of a failed call and never completes.
C14_FinalizeAllOrAbort ==
  \A p \in Attempts :
    /\ pc[p] = "Complete" =>
         /\ \A op \in FinalOps : calls[p][op].st = "ok"
         /\ accounts[p].exists
         /\ accounts[p].role = "ADMIN"
         /\ accounts[p].confirmed
    /\ (\E op \in FinalOps : calls[p][op].st = "fail") =>
         \E op \in FinalOps :
           /\ calls[p][op].st = "fail"
           /\ \/ pc[p] = "finalize" /\ joinErr[p] = FinalOpError(op)
              \/ pc[p] = "Aborted" /\ err[p] = FinalOpError(op)

\* C14 witness: setRole succeeded and confirmEmail failed, and setup was
\* aborted with the error of confirmEmail
C14_Witness ==
  \E p \in Attempts :
    /\ pc[p] = "Aborted"
    /\ err[p] = "ErrConfirmEmail"
    /\ calls[p]["setRole"].st = "ok"
    /\ calls[p]["confirmEmail"].st = "fail"

\* C15: when setRole or confirmEmail has failed nothing is compensated: the
\* account created by createLocalUser and a persisted Configuration still
\* exist, the account lacks what the failed call would have set and keeps
\* what the other call set.
C15_FinalizeFailureKeepsAccount ==
  \A p \in Attempts :
    (\E op \in FinalOps : calls[p][op].st = "fail") =>
      /\ pc[p] # "Complete"
      /\ accounts[p].exists
      /\ config # NoConfig
      /\ calls[p]["setRole"].st = "fail" => accounts[p].role = "COMMENTER"
      /\ calls[p]["confirmEmail"].st = "fail" => ~accounts[p].confirmed
      /\ calls[p]["setRole"].st = "ok" => accounts[p].role = "ADMIN"
      /\ calls[p]["confirmEmail"].st = "ok" => accounts[p].confirmed

\* C15 witness: setup was aborted by setRole; the account exists with a
\* confirmed email and without the administrator role
C15_Witness ==
  \E p \in Attempts :
    /\ pc[p] = "Aborted"
    /\ err[p] = "ErrSetRole"
    /\ accounts[p] = [exists |-> TRUE, role |-> "COMMENTER", confirmed |-> TRUE]
    /\ config # NoConfig

\* C16: a setup attempt whose validation fails (missing email, or a failed
\* username, password or settings check) invokes no MigrationRunner,
\* ConfigStore or AccountStore operation, and its steps leave the applied
\* migrations, the Configuration and the accounts unchanged.
C16_ValidationFailureNoEffect ==
  /\ [](\A p \in Attempts :
          (/\ atCall[p].called
           /\ \/ input[p].email \in {"undefined", ""}
              \/ \E k \in Checks : calls[p][k].st = "fail")
            => /\ pc[p] \in {"validate", "Aborted"}
               /\ \A op \in SideEffectOps : calls[p][op] = NotCalled
               /\ ~accounts[p].exists
               /\ settings[p] = "-"
               /\ migrations[p] = <<>>)
  /\ [][\A p \in Attempts :
          (/\ atCall'[p].called
           /\ \/ input'[p].email \in {"undefined", ""}
              \/ \E k \in Checks : ~CheckPasses(k, input'[p])
           /\ <<pc[p], calls[p], err[p]>> # <<pc'[p], calls'[p], err'[p]>>)
            => UNCHANGED <<config, applied, accounts>>]_vars

\* C16 witness: a setup attempt was aborted by the settings check after the
\* other two checks had passed
C16_Witness ==
  \E p \in Attempts :
    /\ atCall[p].called
    /\ pc[p] = "Aborted"
    /\ err[p] = "ErrInvalidSettings"
    /\ calls[p]["isValidUsername"].st = "ok"
    /\ calls[p]["isValidPassword"].st = "ok"

\* C17: when every collaborator call eventually returns or fails, every setup
\* attempt eventually reaches a terminal state, Complete with the settings and
\* the user and no error, or Aborted with an error and no result, and stays
\* in it.
C17_EventuallyTerminal ==
  /\ \A p \in Attempts : atCall[p].called ~> (pc[p] \in Terminal)
  /\ [](\A p \in Attempts :
          /\ pc[p] = "Complete" =>
               /\ err[p] = NoError
               /\ result[p].user.exists
               /\ result[p].settings = settings[p]
               /\ result[p].settings \in {"S", "T"}
          /\ pc[p] = "Aborted" =>
               /\ err[p] # NoError
               /\ ~result[p].user.exists)
  /\ [][\A p \in Attempts :
          pc[p] \in Terminal =>
            pc'[p] = pc[p] /\ err'[p] = err[p] /\ result'[p] = result[p]]_vars

\* C17 witness: one attempt has completed and another one has been aborted
C17_Witness ==
  \E p, q \in Attempts :
    /\ pc[p] = "Complete" /\ result[p].user.exists
    /\ pc[q] = "Aborted" /\ err[q] = "ErrConfirmEmail"

\* C18: the list an attempt holds for run is exactly the list its own
\* listPending returned, the migrations not applied at that time, in order; run
\* is invoked only after that listPending succeeded and applies a prefix of
\* that list, the whole list when it succeeds; no step ever removes an applied
\* migration, so what a failed run applied stays applied.
C18_RunOverListedMigrations ==
  [][\A p \in Attempts :
       /\ (calls[p]["listPending"].n = 0 /\ calls'[p]["listPending"].st = "ok") =>
            migrations'[p] = SelectSeq(AllMigrations, LAMBDA m : m \notin applied)
       /\ migrations'[p] # migrations[p] =>
            calls[p]["listPending"].n = 0 /\ calls'[p]["listPending"].st = "ok"
       /\ (calls[p]["run"].n = 0 /\ calls'[p]["run"].n = 1) =>
            /\ calls[p]["listPending"] = [n |-> 1, st |-> "ok"]
            /\ \E k \in 0..Len(migrations[p]) :
                 /\ applied' = applied \cup {migrations[p][i] : i \in 1..k}
                 /\ calls'[p]["run"].st = "ok" => k = Len(migrations[p])
       /\ applied \subseteq applied'
       /\ (pc[p] = "Aborted" /\ err[p] = "ErrRun") => pc'[p] = "Aborted"]_vars

\* C18 witness: an attempt listed both migrations, its run failed after
\* applying the first one only, and that one is still applied once the
\* attempt is aborted
C18_Witness ==
  \E p \in Attempts :
    /\ pc[p] = "Aborted"
    /\ err[p] = "ErrRun"
    /\ Len(migrations[p]) = NumMigrations
    /\ applied = {migrations[p][1]}

\* C19: once a setup attempt is in a terminal state, nothing the attempt
\* issued changes the account store any more: the account it created stays as
\* it was when setup returned or failed.
C19_NoEffectAfterTerminal ==
  [][\A p \in Attempts :
       pc[p] \in Terminal => accounts'[p] = accounts[p]]_vars

====
